---- MODULE Spec2Model ----
(***************************************************************************)
(* A model of the retrieval-session manager DatabaseManager                *)
(* (src/src/runner/database_manager.py) and of the vector-index build      *)
(* make_db_context_vec_db (src/src/database_utils/db_catalog/preprocess.py)*)
(*                                                                         *)
(* The session is a process-wide singleton.  Caller threads run            *)
(* DatabaseManager(...), query_lsh and query_vector_db; every read and     *)
(* write of an attribute of the singleton is one step of the thread that   *)
(* runs it, so that the interleavings the interpreter allows are the       *)
(* interleavings of the model.                                             *)
(***************************************************************************)
EXTENDS Integers, Sequences, FiniteSets, TLC

\* ------------------------------------------------------------- bounds
NThreads == 2
MaxCalls == 3
MaxCols == 1
MaxBuilds == 2

Threads == 1..NThreads
Modes == {"dev", "train"}
Ids == {"a", "b"}

\* ------------------------------------------------------------- values
\* An attribute of the session holds one of: no value yet (the attribute does
\* not exist before _init assigns it), None, the "error" sentinel, or a
\* loaded object.  A loaded object remembers the directory it was read from
\* and which load produced it (ep, n): two loads give two objects.
Unset == [k |-> "unset", mode |-> "-", id |-> "-", ep |-> 0, n |-> 0]
NoneV == [k |-> "none", mode |-> "-", id |-> "-", ep |-> 0, n |-> 0]
ErrorV == [k |-> "error", mode |-> "-", id |-> "-", ep |-> 0, n |-> 0]
Loaded(dir, e, i) == [k |-> "loaded", mode |-> dir[1], id |-> dir[2], ep |-> e, n |-> i]
IsLoaded(v) == v.k = "loaded"

NoPath == <<"unset", "unset">>
\* DB_ROOT_PATH / f"{db_mode}_databases" / db_id / f"{db_id}.sqlite"
SqlitePath(mode, id) == <<mode, id, id>>
\* DB_ROOT_PATH / f"{db_mode}_databases" / db_id
DirPath(mode, id) == <<mode, id>>

NoArg == <<"-", "-">>
NoOut == [kind |-> "-", sub |-> "-", name |-> "-"]
ResultOut == [kind |-> "result", sub |-> "-", name |-> "-"]
InstOut == [kind |-> "instance", sub |-> "-", name |-> "-"]
ValueErrorOut == [kind |-> "ValueError", sub |-> "-", name |-> "-"]
\* An AttributeError from a missing attribute, or from the external query
\* primitive handed None or the sentinel string instead of an index.
CrashOut == [kind |-> "crash", sub |-> "-", name |-> "-"]
LoadErrOut(s, dbid) == [kind |-> "loaderr", sub |-> s, name |-> dbid]

VARIABLES
  created,            \* cls._instance is not None
  objCount,           \* objects made by super().__new__
  db_mode, db_id, db_path, db_directory_path,
  lsh, minhashes, vector_db,
  lock,               \* cls._lock: 0 when free, else the holder
  pc, op, arg,        \* each thread: position, running call, its (mode, id)
  st,                 \* each thread: lsh_status / vector_db_status
  path,               \* each thread: vector_db_path
  h1, h2,             \* each thread: objects it built or read
  out,                \* each thread: how its last call ended
  epoch,              \* runs of _init so far
  lshLoads, lshFails, \* runs of set_lsh's load body since the last _init, and failed ones
  vecOpens, vecFails, \* Chroma(...) constructions since the last _init, and failed ones
  overlap,            \* two calls have been in flight at once
  argsSeen,           \* the identities DatabaseManager(mode, id) was called with
  calls,              \* calls started
  catalog,            \* what load_tables_description returns for the directory
  index,              \* the context_vector_db directory: whether it exists, the documents in it
  bpc,                \* the build's position
  flag,               \* the build's use_value_description
  docs,               \* the build's docs
  bout,               \* how the last build ended
  prior,              \* the documents the directory held when the build began
  rmFailed,           \* this build's rm -r left the directory in place
  builds              \* builds started

sess == <<created, objCount, db_mode, db_id, db_path, db_directory_path>>
slots == <<lsh, minhashes, vector_db>>
locals == <<st, path, h1, h2>>
ghost == <<epoch, lshLoads, lshFails, vecOpens, vecFails>>
svars == <<created, objCount, db_mode, db_id, db_path, db_directory_path,
          lsh, minhashes, vector_db, lock, pc, op, arg, st, path, h1, h2, out,
          epoch, lshLoads, lshFails, vecOpens, vecFails, overlap, argsSeen, calls>>
bvars == <<catalog, index, bpc, flag, docs, bout, prior, rmFailed, builds>>
vars == <<svars, bvars>>

NoIndex == [exists |-> FALSE, docs |-> <<>>]

\* no build has run and none is running
BuildIdle ==
  /\ index = NoIndex
  /\ bpc = "b_idle"
  /\ flag = TRUE
  /\ docs = <<>>
  /\ bout = "-"
  /\ prior = <<>>
  /\ rmFailed = FALSE
  /\ builds = 0

\* no session exists and no thread is in a call
SessionInit ==
  /\ created = FALSE
  /\ objCount = 0
  /\ db_mode = "unset"
  /\ db_id = "unset"
  /\ db_path = NoPath
  /\ db_directory_path = NoPath
  /\ lsh = Unset
  /\ minhashes = Unset
  /\ vector_db = Unset
  /\ lock = 0
  /\ pc = [t \in Threads |-> "idle"]
  /\ op = [t \in Threads |-> "-"]
  /\ arg = [t \in Threads |-> NoArg]
  /\ st = [t \in Threads |-> "-"]
  /\ path = [t \in Threads |-> NoPath]
  /\ h1 = [t \in Threads |-> Unset]
  /\ h2 = [t \in Threads |-> Unset]
  /\ out = [t \in Threads |-> NoOut]
  /\ epoch = 0
  /\ lshLoads = 0
  /\ lshFails = 0
  /\ vecOpens = 0
  /\ vecFails = 0
  /\ overlap = FALSE
  /\ argsSeen = {}
  /\ calls = 0

Init == SessionInit /\ catalog = <<>> /\ BuildIdle

\* ------------------------------------------------------------- calls
InFlight(t) == pc[t] # "idle"

\* A thread starts a call; its locals are those of a fresh frame.
Begin(t, o, a, first) ==
  /\ pc[t] = "idle"
  /\ calls < MaxCalls
  /\ calls' = calls + 1
  /\ pc' = [pc EXCEPT ![t] = first]
  /\ op' = [op EXCEPT ![t] = o]
  /\ arg' = [arg EXCEPT ![t] = a]
  /\ st' = [st EXCEPT ![t] = "-"]
  /\ path' = [path EXCEPT ![t] = NoPath]
  /\ h1' = [h1 EXCEPT ![t] = Unset]
  /\ h2' = [h2 EXCEPT ![t] = Unset]
  /\ out' = [out EXCEPT ![t] = NoOut]
  /\ overlap' = (overlap \/ \E u \in Threads \ {t} : InFlight(u))

\* The call ends: the frame is left with its outcome.
End(t, o) ==
  /\ pc' = [pc EXCEPT ![t] = "idle"]
  /\ out' = [out EXCEPT ![t] = o]

Goto(t, p) == pc' = [pc EXCEPT ![t] = p]

\* with cls._lock: (the lock is not reentrant)
NewAcquire(t) == lock = 0 /\ lock' = t
\* the same block entered without waiting for the lock
LshAcquireUnlocked(t) == lock' = t
LshAcquire(t) == lock = 0 /\ lock' = t
Release(t) == lock' = 0

\* DatabaseManager(db_mode, db_id) with both given
CallNew(t) ==
  \E m \in Modes, i \in Ids :
    /\ Begin(t, "new", <<m, i>>, "n_enter")
    /\ argsSeen' = argsSeen \cup {<<m, i>>}
    /\ UNCHANGED <<bvars, sess, slots, lock, ghost>>

\* argument pairs with db_mode or db_id (or both) None; the branch they take
\* reads neither, so one mode and one id stand for all
MissingArgs == {NoArg, <<"dev", "-">>, <<"-", "a">>}

\* DatabaseManager(), DatabaseManager("dev"), DatabaseManager(db_id="a") : the
\* else branch of __new__, which takes no lock
CallNewNoArg(t) ==
  \E a \in MissingArgs :
    /\ Begin(t, "new0", a, "nn")
    /\ UNCHANGED <<bvars, sess, slots, lock, ghost, argsSeen>>

\* (a variant that makes a bare session when there is none, and never raises)
NewNoArgLenient(t) ==
  /\ pc[t] = "nn"
  /\ created' = TRUE
  /\ objCount' = IF created THEN objCount ELSE objCount + 1
  /\ End(t, InstOut)
  /\ UNCHANGED <<bvars, db_mode, db_id, db_path, db_directory_path, slots, lock, op, arg,
                 locals, ghost, overlap, argsSeen, calls>>

\* if cls._instance is None: raise ValueError(...); return cls._instance
NewNoArg(t) ==
  /\ pc[t] = "nn"
  /\ End(t, IF created THEN InstOut ELSE ValueErrorOut)
  /\ UNCHANGED <<bvars, sess, slots, lock, op, arg, locals, ghost, overlap, argsSeen, calls>>

\* __new__ under the lock: create, re-initialise, or return the instance as is
\* every call re-initialises
NeedsInitAlways(t) == TRUE
NeedsInit(t) == ~created \/ db_id # arg[t][2]

NewEnter(t) ==
  /\ pc[t] = "n_enter"
  /\ NewAcquire(t)
  /\ IF ~created
       THEN /\ created' = TRUE
            /\ objCount' = objCount + 1
            /\ Goto(t, "i_mode")
       ELSE /\ UNCHANGED <<created, objCount>>
            /\ Goto(t, IF NeedsInit(t) THEN "i_mode" ELSE "n_ret")
  /\ UNCHANGED <<bvars, db_mode, db_id, db_path, db_directory_path, slots, op, arg,
                 locals, out, ghost, overlap, argsSeen, calls>>

\* _init, one assignment a step
InitMode(t) ==
  /\ pc[t] = "i_mode"
  /\ db_mode' = arg[t][1]
  /\ epoch' = epoch + 1
  /\ Goto(t, "i_id")
  /\ UNCHANGED <<bvars, created, objCount, db_id, db_path, db_directory_path, slots, lock,
                 op, arg, locals, out, lshLoads, lshFails, vecOpens, vecFails,
                 overlap, argsSeen, calls>>

InitId(t) ==
  /\ pc[t] = "i_id"
  /\ db_id' = arg[t][2]
  /\ Goto(t, "i_path")
  /\ UNCHANGED <<bvars, created, objCount, db_mode, db_path, db_directory_path, slots, lock,
                 op, arg, locals, out, ghost, overlap, argsSeen, calls>>

InitPath(t) ==
  /\ pc[t] = "i_path"
  /\ db_path' = SqlitePath(db_mode, db_id)
  /\ Goto(t, "i_dir")
  /\ UNCHANGED <<bvars, created, objCount, db_mode, db_id, db_directory_path, slots, lock,
                 op, arg, locals, out, ghost, overlap, argsSeen, calls>>

InitDir(t) ==
  /\ pc[t] = "i_dir"
  /\ db_directory_path' = DirPath(db_mode, db_id)
  /\ Goto(t, "i_lsh")
  /\ UNCHANGED <<bvars, created, objCount, db_mode, db_id, db_path, slots, lock,
                 op, arg, locals, out, ghost, overlap, argsSeen, calls>>

InitLsh(t) ==
  /\ pc[t] = "i_lsh"
  /\ lsh' = NoneV
  /\ lshLoads' = 0
  /\ lshFails' = 0
  /\ Goto(t, "i_mh")
  /\ UNCHANGED <<bvars, sess, minhashes, vector_db, lock, op, arg, locals, out,
                 epoch, vecOpens, vecFails, overlap, argsSeen, calls>>

InitMinhashes(t) ==
  /\ pc[t] = "i_mh"
  /\ minhashes' = NoneV
  /\ Goto(t, "i_vec")
  /\ UNCHANGED <<bvars, sess, lsh, vector_db, lock, op, arg, locals, out,
                 ghost, overlap, argsSeen, calls>>

InitVector(t) ==
  /\ pc[t] = "i_vec"
  /\ vector_db' = NoneV
  /\ vecOpens' = 0
  /\ vecFails' = 0
  /\ Goto(t, "n_ret")
  /\ UNCHANGED <<bvars, sess, lsh, minhashes, lock, op, arg, locals, out,
                 epoch, lshLoads, lshFails, overlap, argsSeen, calls>>

\* return cls._instance, leaving the with block
NewReturn(t) ==
  /\ pc[t] = "n_ret"
  /\ Release(t)
  /\ End(t, InstOut)
  /\ UNCHANGED <<bvars, sess, slots, op, arg, locals, ghost, overlap, argsSeen, calls>>

\* ------------------------------------------------------------- LSH
\* query_lsh / query_vector_db are methods: the caller holds the instance
CallQueryLsh(t) ==
  /\ created
  /\ Begin(t, "query_lsh", NoArg, "l_enter")
  /\ UNCHANGED <<bvars, sess, slots, lock, ghost, argsSeen>>

\* set_lsh under the lock: the state of self.lsh decides (the attribute exists
\* whenever the lock is free: only the first _init, which holds it, finds it missing)
LshEnter(t) ==
  /\ pc[t] = "l_enter"
  /\ LshAcquire(t)
  /\ IF lsh.k = "none"
       THEN /\ Goto(t, "l_load")
            /\ UNCHANGED st
       ELSE /\ Goto(t, "l_rel")
            /\ st' = [st EXCEPT ![t] = IF lsh.k = "error" THEN "error" ELSE "success"]
  /\ UNCHANGED <<bvars, sess, slots, op, arg, path, h1, h2, out, ghost, overlap, argsSeen, calls>>

\* the load body: <db_id>_lsh.pkl is opened and unpickled, or an exception is raised
LshLoadLsh(t) ==
  /\ pc[t] = "l_load"
  /\ lshLoads' = lshLoads + 1
  /\ \/ /\ lsh' = Loaded(db_directory_path, epoch, lshLoads + 1)
        /\ Goto(t, "l_load_mh")
        /\ UNCHANGED lshFails
     \/ /\ lshFails' = lshFails + 1
        /\ Goto(t, "l_fail")
        /\ UNCHANGED lsh
  /\ UNCHANGED <<bvars, sess, minhashes, vector_db, lock, op, arg, locals, out,
                 epoch, vecOpens, vecFails, overlap, argsSeen, calls>>

\* <db_id>_minhashes.pkl is opened and unpickled, or an exception is raised
LshLoadMinhashes(t) ==
  /\ pc[t] = "l_load_mh"
  /\ \/ /\ minhashes' = Loaded(db_directory_path, epoch, lshLoads)
        /\ st' = [st EXCEPT ![t] = "success"]
        /\ Goto(t, "l_rel")
        /\ UNCHANGED lshFails
     \/ /\ lshFails' = lshFails + 1
        /\ Goto(t, "l_fail")
        /\ UNCHANGED <<minhashes, st>>
  /\ UNCHANGED <<bvars, sess, lsh, vector_db, lock, op, arg, path, h1, h2, out,
                 epoch, lshLoads, vecOpens, vecFails, overlap, argsSeen, calls>>

\* (a variant of the handler that leaves self.lsh as the try block left it)
LshFailLshKept(t) ==
  /\ pc[t] = "l_fail"
  /\ Goto(t, "l_fail_mh")
  /\ UNCHANGED <<bvars, sess, slots, lock, op, arg, locals, out,
                 ghost, overlap, argsSeen, calls>>

\* except Exception: self.lsh = "error"
LshFailLsh(t) ==
  /\ pc[t] = "l_fail"
  /\ lsh' = ErrorV
  /\ Goto(t, "l_fail_mh")
  /\ UNCHANGED <<bvars, sess, minhashes, vector_db, lock, op, arg, locals, out,
                 ghost, overlap, argsSeen, calls>>

\* the failure is recorded for the vector slot as well
LshFailMinhashesBoth(t) ==
  /\ pc[t] = "l_fail_mh"
  /\ minhashes' = ErrorV
  /\ vector_db' = ErrorV
  /\ st' = [st EXCEPT ![t] = "error"]
  /\ Goto(t, "l_rel")
  /\ UNCHANGED <<bvars, sess, lsh, lock, op, arg, path, h1, h2, out,
                 ghost, overlap, argsSeen, calls>>

\* self.minhashes = "error"; return "error"
LshFailMinhashes(t) ==
  /\ pc[t] = "l_fail_mh"
  /\ minhashes' = ErrorV
  /\ st' = [st EXCEPT ![t] = "error"]
  /\ Goto(t, "l_rel")
  /\ UNCHANGED <<bvars, sess, lsh, vector_db, lock, op, arg, path, h1, h2, out,
                 ghost, overlap, argsSeen, calls>>

\* (a variant that returns from set_lsh with the lock still held)
LshReleaseHolding(t) ==
  /\ pc[t] = "l_rel"
  /\ Goto(t, "ql_branch")
  /\ UNCHANGED <<bvars, sess, slots, lock, op, arg, locals, out, ghost, overlap,
                 argsSeen, calls>>

\* set_lsh returns its status, leaving the with block
LshRelease(t) ==
  /\ pc[t] = "l_rel"
  /\ Release(t)
  /\ Goto(t, "ql_branch")
  /\ UNCHANGED <<bvars, sess, slots, op, arg, locals, out, ghost, overlap, argsSeen, calls>>

\* raise Exception(f"Error loading <subsystem> for {self.db_id}")
RaiseLoadError(s) == IF db_id = "unset" THEN CrashOut ELSE LoadErrOut(s, db_id)

\* if lsh_status == "success": ... else: raise
QueryLshBranch(t) ==
  /\ pc[t] = "ql_branch"
  /\ IF st[t] = "success"
       THEN /\ Goto(t, "ql_read")
            /\ UNCHANGED out
       ELSE End(t, RaiseLoadError("LSH"))
  /\ UNCHANGED <<bvars, sess, slots, lock, op, arg, locals, ghost, overlap, argsSeen, calls>>

\* the argument self.lsh is read
QueryLshRead(t) ==
  /\ pc[t] = "ql_read"
  /\ h1' = [h1 EXCEPT ![t] = lsh]
  /\ Goto(t, "ql_call")
  /\ UNCHANGED <<bvars, sess, slots, lock, op, arg, st, path, h2, out, ghost, overlap,
                 argsSeen, calls>>

\* the external query primitive: a mapping from indices, an AttributeError otherwise
Delegate(a, b) == IF IsLoaded(a) /\ IsLoaded(b) THEN ResultOut ELSE CrashOut

\* the argument self.minhashes is read and query_lsh(...) of db_values.search runs
QueryLshCall(t) ==
  /\ pc[t] = "ql_call"
  /\ h2' = [h2 EXCEPT ![t] = minhashes]
  /\ End(t, Delegate(h1[t], minhashes))
  /\ UNCHANGED <<bvars, sess, slots, lock, op, arg, st, path, h1, ghost, overlap,
                 argsSeen, calls>>

\* ------------------------------------------------------------- vector
CallQueryVector(t) ==
  /\ created
  /\ Begin(t, "query_vector_db", NoArg, "v_none")
  /\ UNCHANGED <<bvars, sess, slots, lock, ghost, argsSeen>>

\* set_vector_db takes no lock.  if self.vector_db is None:
VecIsNone(t) ==
  /\ pc[t] = "v_none"
  /\ IF vector_db.k = "unset"
       THEN /\ End(t, CrashOut)
       ELSE /\ Goto(t, IF vector_db.k = "none" THEN "v_path" ELSE "v_iserr")
            /\ UNCHANGED out
  /\ UNCHANGED <<bvars, sess, slots, lock, op, arg, locals, ghost, overlap, argsSeen, calls>>

\* elif self.vector_db == "error": a second read of the attribute
VecIsError(t) ==
  /\ pc[t] = "v_iserr"
  /\ IF vector_db.k = "unset"
       THEN /\ End(t, CrashOut)
            /\ UNCHANGED st
       ELSE /\ st' = [st EXCEPT ![t] = IF vector_db.k = "error" THEN "error" ELSE "success"]
            /\ Goto(t, "qv_branch")
            /\ UNCHANGED out
  /\ UNCHANGED <<bvars, sess, slots, lock, op, arg, path, h1, h2, ghost, overlap, argsSeen, calls>>

\* vector_db_path = self.db_directory_path / "context_vector_db", inside the try
VecPath(t) ==
  /\ pc[t] = "v_path"
  /\ IF db_directory_path = NoPath
       THEN /\ Goto(t, "v_fail")
            /\ UNCHANGED path
       ELSE /\ path' = [path EXCEPT ![t] = db_directory_path]
            /\ Goto(t, "v_open")
  /\ UNCHANGED <<bvars, sess, slots, lock, op, arg, st, h1, h2, out, ghost, overlap,
                 argsSeen, calls>>

\* Chroma(persist_directory=..., embedding_function=...) returns a store or raises
VecOpen(t) ==
  /\ pc[t] = "v_open"
  /\ vecOpens' = vecOpens + 1
  /\ \/ /\ h1' = [h1 EXCEPT ![t] = Loaded(path[t], epoch, vecOpens + 1)]
        /\ Goto(t, "v_assign")
        /\ UNCHANGED vecFails
     \/ /\ vecFails' = vecFails + 1
        /\ Goto(t, "v_fail")
        /\ UNCHANGED h1
  /\ UNCHANGED <<bvars, sess, slots, lock, op, arg, st, path, h2, out,
                 epoch, lshLoads, lshFails, overlap, argsSeen, calls>>

\* self.vector_db = Chroma(...); return "success"
VecAssign(t) ==
  /\ pc[t] = "v_assign"
  /\ vector_db' = h1[t]
  /\ st' = [st EXCEPT ![t] = "success"]
  /\ Goto(t, "qv_branch")
  /\ UNCHANGED <<bvars, sess, lsh, minhashes, lock, op, arg, path, h1, h2, out,
                 ghost, overlap, argsSeen, calls>>

\* the failure is reported but the sentinel is not stored
VecFailNotCached(t) ==
  /\ pc[t] = "v_fail"
  /\ vector_db' = NoneV
  /\ st' = [st EXCEPT ![t] = "error"]
  /\ Goto(t, "qv_branch")
  /\ UNCHANGED <<bvars, sess, lsh, minhashes, lock, op, arg, path, h1, h2, out,
                 ghost, overlap, argsSeen, calls>>

\* except Exception: self.vector_db = "error"; return "error"
VecFail(t) ==
  /\ pc[t] = "v_fail"
  /\ vector_db' = ErrorV
  /\ st' = [st EXCEPT ![t] = "error"]
  /\ Goto(t, "qv_branch")
  /\ UNCHANGED <<bvars, sess, lsh, minhashes, lock, op, arg, path, h1, h2, out,
                 ghost, overlap, argsSeen, calls>>

\* a failed load answered with an empty mapping instead of the error
QueryVectorBranchEmpty(t) ==
  /\ pc[t] = "qv_branch"
  /\ IF st[t] = "success"
       THEN /\ Goto(t, "qv_call")
            /\ UNCHANGED out
       ELSE End(t, ResultOut)
  /\ UNCHANGED <<bvars, sess, slots, lock, op, arg, locals, ghost, overlap, argsSeen, calls>>

\* if vector_db_status == "success": ... else: raise
QueryVectorBranch(t) ==
  /\ pc[t] = "qv_branch"
  /\ IF st[t] = "success"
       THEN /\ Goto(t, "qv_call")
            /\ UNCHANGED out
       ELSE End(t, RaiseLoadError("Vector DB"))
  /\ UNCHANGED <<bvars, sess, slots, lock, op, arg, locals, ghost, overlap, argsSeen, calls>>

\* the argument self.vector_db is read and query_vector_db(...) of db_catalog.search runs
QueryVectorCall(t) ==
  /\ pc[t] = "qv_call"
  /\ h2' = [h2 EXCEPT ![t] = vector_db]
  /\ End(t, Delegate(vector_db, vector_db))
  /\ UNCHANGED <<bvars, sess, slots, lock, op, arg, st, path, h1, ghost, overlap,
                 argsSeen, calls>>

Next ==
  \E t \in Threads :
    \/ CallNew(t)
    \/ CallNewNoArg(t)
    \/ NewNoArg(t)
    \/ NewEnter(t)
    \/ InitMode(t)
    \/ InitId(t)
    \/ InitPath(t)
    \/ InitDir(t)
    \/ InitLsh(t)
    \/ InitMinhashes(t)
    \/ InitVector(t)
    \/ NewReturn(t)
    \/ CallQueryLsh(t)
    \/ LshEnter(t)
    \/ LshLoadLsh(t)
    \/ LshLoadMinhashes(t)
    \/ LshFailLsh(t)
    \/ LshFailMinhashes(t)
    \/ LshRelease(t)
    \/ QueryLshBranch(t)
    \/ QueryLshRead(t)
    \/ QueryLshCall(t)
    \/ CallQueryVector(t)
    \/ VecIsNone(t)
    \/ VecIsError(t)
    \/ VecPath(t)
    \/ VecOpen(t)
    \/ VecAssign(t)
    \/ VecFail(t)
    \/ QueryVectorBranch(t)
    \/ QueryVectorCall(t)

\* ------------------------------------------------------------- the build
\* Text is a sequence of characters; " " is whitespace.
Texts == {<<>>, <<" ">>, <<"x", " ">>}
FieldKeys == <<"column_name", "column_description", "value_description">>

RECURSIVE LStrip(_)
LStrip(s) == IF s # <<>> /\ Head(s) = " " THEN LStrip(Tail(s)) ELSE s
RECURSIVE RStrip(_)
RStrip(s) == IF s # <<>> /\ s[Len(s)] = " " THEN RStrip(SubSeq(s, 1, Len(s) - 1)) ELSE s
\* str.strip()
Strip(s) == RStrip(LStrip(s))

\* The catalog in iteration order: one entry per (table, column), with the
\* column's descriptive fields.
ColumnInfos == [column_name : Texts, column_description : Texts, value_description : Texts]
ColumnNames == <<"c1", "c2", "c3">>
Catalogs ==
  UNION {{[i \in 1..n |-> [table_name |-> "employees",
                           original_column_name |-> ColumnNames[i],
                           info |-> f[i]]] : f \in [1..n -> ColumnInfos]}
         : n \in 0..MaxCols}

\* (a variant that records the catalog's value description whatever the flag)
MetadataTrue(col, useValueDescription) ==
  [table_name |-> col.table_name,
   original_column_name |-> col.original_column_name,
   column_name |-> col.info.column_name,
   column_description |-> col.info.column_description,
   value_description |-> col.info.value_description]

\* the metadata dict of a column
Metadata(col, useValueDescription) ==
  [table_name |-> col.table_name,
   original_column_name |-> col.original_column_name,
   column_name |-> col.info.column_name,
   column_description |-> col.info.column_description,
   value_description |-> IF useValueDescription THEN col.info.value_description ELSE <<>>]

\* (a variant that tests the text without trimming it)
FieldDocNoStrip(col, key, useValueDescription) ==
  IF col.info[key] # <<>>
    THEN <<[page_content |-> col.info[key], metadata |-> Metadata(col, useValueDescription)]>>
    ELSE <<>>

\* for key in [...]: if column_info.get(key, '').strip(): docs.append(Document(...))
FieldDoc(col, key, useValueDescription) ==
  IF Strip(col.info[key]) # <<>>
    THEN <<[page_content |-> col.info[key], metadata |-> Metadata(col, useValueDescription)]>>
    ELSE <<>>

ColumnDocs(col, useValueDescription) ==
  FieldDoc(col, FieldKeys[1], useValueDescription)
    \o FieldDoc(col, FieldKeys[2], useValueDescription)
    \o FieldDoc(col, FieldKeys[3], useValueDescription)

\* the loop over the catalog
RECURSIVE BuildDocs(_, _)
BuildDocs(cat, useValueDescription) ==
  IF cat = <<>> THEN <<>>
  ELSE ColumnDocs(Head(cat), useValueDescription) \o BuildDocs(Tail(cat), useValueDescription)

\* make_db_context_vec_db(db_directory_path, use_value_description=...): the
\* catalog is loaded and the documents are made
BuildStart ==
  /\ bpc = "b_idle"
  /\ builds < MaxBuilds
  /\ builds' = builds + 1
  /\ \E f \in BOOLEAN :
       /\ flag' = f
       /\ docs' = BuildDocs(catalog, f)
  /\ prior' = index.docs
  /\ rmFailed' = FALSE
  /\ bout' = "-"
  /\ bpc' = "b_rm"
  /\ UNCHANGED <<svars, catalog, index>>

\* what os.system("rm -r ...") leaves behind: nothing, or, when the removal
\* fails, the directory as it was; its exit status is not looked at
RmOutcomes(ix) == {NoIndex, ix}

\* if vector_db_path.exists(): os.system(f"rm -r {vector_db_path}")
BuildRemove ==
  /\ bpc = "b_rm"
  /\ IF index.exists
       THEN \E ix \in RmOutcomes(index) :
              /\ index' = ix
              /\ rmFailed' = ix.exists
       ELSE UNCHANGED <<index, rmFailed>>
  /\ bpc' = "b_mkdir"
  /\ UNCHANGED <<svars, catalog, flag, docs, bout, prior, builds>>

\* vector_db_path.mkdir(exist_ok=True): nothing to do for a directory that is
\* there; otherwise it is made, or OSError is raised
BuildMkdir ==
  /\ bpc = "b_mkdir"
  /\ IF index.exists
       THEN /\ bpc' = "b_embed"
            /\ UNCHANGED <<index, bout>>
       ELSE \/ /\ index' = [exists |-> TRUE, docs |-> <<>>]
               /\ bpc' = "b_embed"
               /\ UNCHANGED bout
            \/ /\ bpc' = "b_idle"
               /\ bout' = "error"
               /\ UNCHANGED index
  /\ UNCHANGED <<svars, catalog, flag, docs, prior, rmFailed, builds>>

\* Chroma.from_documents(docs, ..., persist_directory=...): the documents are
\* added to the collection found at the location, or the call raises
BuildEmbed ==
  /\ bpc = "b_embed"
  /\ \/ /\ index' = [index EXCEPT !.docs = @ \o docs]
        /\ bout' = "ok"
     \/ /\ bout' = "error"
        /\ UNCHANGED index
  /\ bpc' = "b_idle"
  /\ UNCHANGED <<svars, catalog, flag, docs, prior, rmFailed, builds>>

BuildNext ==
  \/ BuildStart
  \/ BuildRemove
  \/ BuildMkdir
  \/ BuildEmbed

BuildInit == SessionInit /\ catalog \in Catalogs /\ BuildIdle

BuildSpec == BuildInit /\ [][BuildNext]_vars

Spec == Init /\ [][Next]_vars

\* A step of thread t inside a call it has begun.
ThreadStep(t) ==
  \/ NewNoArg(t)
  \/ NewEnter(t)
  \/ InitMode(t)
  \/ InitId(t)
  \/ InitPath(t)
  \/ InitDir(t)
  \/ InitLsh(t)
  \/ InitMinhashes(t)
  \/ InitVector(t)
  \/ NewReturn(t)
  \/ LshEnter(t)
  \/ LshLoadLsh(t)
  \/ LshLoadMinhashes(t)
  \/ LshFailLsh(t)
  \/ LshFailMinhashes(t)
  \/ LshRelease(t)
  \/ QueryLshBranch(t)
  \/ QueryLshRead(t)
  \/ QueryLshCall(t)
  \/ VecIsNone(t)
  \/ VecIsError(t)
  \/ VecPath(t)
  \/ VecOpen(t)
  \/ VecAssign(t)
  \/ VecFail(t)
  \/ QueryVectorBranch(t)
  \/ QueryVectorCall(t)

\* Every thread that can take a step of its call takes one in the end: the
\* interpreter schedules every runnable thread, the loads and the external
\* queries terminate, and a thread waiting for the lock gets it once it stays
\* free. Nothing obliges a thread to begin a call.
FairSpec == Spec /\ \A t \in Threads : WF_vars(ThreadStep(t))

\* ------------------------------------------------------------- claims
Done(t, o) == pc[t] = "idle" /\ op[t] = o
LshPcs == {"l_enter", "l_load", "l_load_mh", "l_fail", "l_fail_mh", "l_rel",
           "ql_branch", "ql_read", "ql_call"}
LshLoadPcs == {"l_load", "l_load_mh", "l_fail", "l_fail_mh"}
VecPcs == {"v_none", "v_iserr", "v_path", "v_open", "v_assign", "v_fail",
           "qv_branch", "qv_call"}

\* C1: on a session that has been initialised once and whose vector index
\* opens whenever it is opened, concurrent query_vector_db calls construct the
\* store at most once in total, and every call that ran set_vector_db returns
\* a result.
C1_SingleOpenAllServed ==
  (epoch = 1 /\ vecFails = 0) =>
    /\ vecOpens <= 1
    /\ \A t \in Threads :
         (Done(t, "query_vector_db") /\ st[t] # "-") => out[t] = ResultOut

\* C2: while calls are issued one after another on a session initialised
\* once, and every load attempt of a slot has failed, each finished query on
\* that slot raised the load error naming the database and the subsystem, and
\* the slot's load was attempted exactly once in total.
C2_FailedLoadIsCached ==
  (~overlap /\ epoch = 1) =>
    \A t \in Threads :
      /\ (Done(t, "query_lsh") /\ lshFails = lshLoads) =>
           (lshLoads = 1 /\ out[t] = LoadErrOut("LSH", db_id))
      /\ (Done(t, "query_vector_db") /\ vecFails = vecOpens) =>
           (vecOpens = 1 /\ out[t] = LoadErrOut("Vector DB", db_id))

\* C2 witness: two query_vector_db calls, one after the other, both raised,
\* after one failed open.
C2_Witness ==
  /\ ~overlap /\ epoch = 1 /\ vecOpens = 1 /\ vecFails = 1
  /\ \A t \in Threads : Done(t, "query_vector_db") /\ out[t] = LoadErrOut("Vector DB", db_id)

\* C3: on a session initialised once, a vector slot that holds the failure
\* sentinel never holds a loaded handle in the next state.
C3_FailedNeverLoaded ==
  [][(epoch' = 1 /\ vector_db = ErrorV) => ~IsLoaded(vector_db')]_vars

\* C4: between two runs of _init the load body of set_lsh runs at most once,
\* only the holder of the lock is inside it, at most one thread is, and the
\* status set_lsh hands back is the outcome stored in the slot.
C4_LshLoadedAtMostOnce ==
  /\ lshLoads <= 1
  /\ Cardinality({t \in Threads : pc[t] \in LshLoadPcs}) <= 1
  /\ \A t \in Threads :
       /\ pc[t] \in LshLoadPcs => lock = t
       /\ pc[t] = "l_rel" =>
            /\ st[t] = "success" <=> (IsLoaded(lsh) /\ IsLoaded(minhashes))
            /\ st[t] = "error" <=> (lsh = ErrorV /\ minhashes = ErrorV)

\* C4 witness: overlapping query_lsh calls have both returned a result after
\* a single load.
C4_Witness ==
  /\ overlap /\ lshLoads = 1
  /\ \A t \in Threads : Done(t, "query_lsh") /\ out[t] = ResultOut

\* C5: a finished query returned a mapping only if its set_* status was
\* "success" and the objects it delegated with were loaded; a query whose
\* set_* status was "error" raised the load error naming a database id and
\* its subsystem.
C5_ResultOnlyFromLoadedSlot ==
  \A t \in Threads :
    /\ Done(t, "query_lsh") =>
         /\ out[t] = ResultOut => (st[t] = "success" /\ IsLoaded(h1[t]) /\ IsLoaded(h2[t]))
         /\ st[t] = "error" => out[t] \in {LoadErrOut("LSH", i) : i \in Ids}
    /\ Done(t, "query_vector_db") =>
         /\ out[t] = ResultOut => (st[t] = "success" /\ IsLoaded(h2[t]))
         /\ st[t] = "error" => out[t] \in {LoadErrOut("Vector DB", i) : i \in Ids}

\* C5 witness: one query has raised for a failed vector load and another has
\* returned a mapping from a loaded LSH slot.
C5_Witness ==
  \E t, u \in Threads :
    /\ Done(t, "query_vector_db") /\ st[t] = "error" /\ out[t] = LoadErrOut("Vector DB", db_id)
    /\ Done(u, "query_lsh") /\ out[u] = ResultOut

\* C6: a DatabaseManager(mode, id) call whose arguments differ from the
\* session's identity in either component goes on to _init; _init ends with
\* both slots Unloaded; and the call returns with the identity and the paths
\* those of its arguments.
C6_IdentityAfterNew ==
  [][\A t \in Threads :
       /\ (pc[t] = "n_enter" /\ pc'[t] # "n_enter" /\ created
             /\ <<db_mode, db_id>> # arg[t]) => pc'[t] = "i_mode"
       /\ (pc[t] = "i_vec" /\ pc'[t] # "i_vec") =>
             (lsh' = NoneV /\ minhashes' = NoneV /\ vector_db' = NoneV)
       /\ (pc[t] = "n_ret" /\ pc'[t] # "n_ret") =>
             /\ <<db_mode', db_id'>> = arg[t]
             /\ db_path' = SqlitePath(arg[t][1], arg[t][2])
             /\ db_directory_path' = DirPath(arg[t][1], arg[t][2])]_vars

\* C7: one object at most is ever created; as long as every
\* DatabaseManager(mode, id) call named the same identity, _init has run at
\* most once and a slot whose state a query has been told is not back to
\* None; and every call that has returned returned the instance, with exactly
\* one object made and _init run.
C7_OneSessionOneInit ==
  /\ objCount <= 1
  /\ Cardinality(argsSeen) <= 1 =>
       /\ epoch <= 1
       /\ \A t \in Threads :
            /\ (op[t] = "query_vector_db" /\ st[t] # "-") =>
                 vector_db.k \in {"loaded", "error"}
            /\ (op[t] = "query_lsh" /\ st[t] # "-") =>
                 (lsh.k \in {"loaded", "error"} /\ minhashes.k = lsh.k)
  /\ \A t \in Threads :
       Done(t, "new") => (out[t] = InstOut /\ objCount = 1 /\ epoch >= 1)

\* C7 witness: two calls with one identity have returned, overlapping other
\* calls, and the vector handle loaded in between is still in its slot.
C7_Witness ==
  /\ Cardinality(argsSeen) = 1 /\ epoch = 1 /\ overlap
  /\ \A t \in Threads : Done(t, "new")
  /\ IsLoaded(vector_db)

\* C8: on a session initialised once, a loaded vector handle, and a loaded
\* pair of lsh and minhashes, are the same in the next state.
C8_LoadedHandleStable ==
  [][epoch' = 1 =>
       /\ IsLoaded(vector_db) => vector_db' = vector_db
       /\ (IsLoaded(lsh) /\ IsLoaded(minhashes)) =>
            (lsh' = lsh /\ minhashes' = minhashes)]_vars

\* C9: a step of query_lsh / set_lsh leaves vector_db and the count of store
\* constructions as they are, and a step of query_vector_db / set_vector_db
\* leaves lsh, minhashes and the count of LSH loads as they are.
C9_SlotsIndependent ==
  [][\A t \in Threads :
       /\ (pc[t] \in LshPcs /\ pc'[t] # pc[t]) =>
            UNCHANGED <<vector_db, vecOpens, vecFails>>
       /\ (pc[t] \in VecPcs /\ pc'[t] # pc[t]) =>
            UNCHANGED <<lsh, minhashes, lshLoads, lshFails>>]_vars

\* C9 witness: query_lsh has returned a mapping while the vector slot holds
\* the failure sentinel.
C9_Witness ==
  /\ vector_db = ErrorV
  /\ vecFails = 1
  /\ \E t \in Threads : Done(t, "query_lsh") /\ out[t] = ResultOut /\ lshLoads = 1

\* C10: once rm -r has failed to remove a directory that held documents,
\* nothing is embedded or persisted (the directory holds the documents it held
\* when the build began), and the build ends with an error.
C10_RemoveFailureAborts ==
  (rmFailed /\ prior # <<>>) =>
    /\ index.docs = prior
    /\ bpc = "b_idle" => bout = "error"

\* C11: a build that has completed without error on a location that held
\* documents leaves exactly the documents of this build in the index, none of
\* the prior build's (so a second build with the same input leaves what one
\* build leaves).
C11_BuildReplacesPrior ==
  (bpc = "b_idle" /\ bout = "ok" /\ prior # <<>>) => index.docs = docs

\* a text with a character that is not whitespace
NonBlank(s) == \E i \in 1..Len(s) : s[i] # " "
\* the texts of the documents emitted for the column named c, in order
TextsFor(c) ==
  LET Mine(d) == d.metadata.original_column_name = c
      sel == SelectSeq(docs, Mine)
  IN  [j \in 1..Len(sel) |-> sel[j].page_content]
\* the catalog entry a document was made from
ColumnOf(d) ==
  CHOOSE i \in 1..Len(catalog) :
    catalog[i].original_column_name = d.metadata.original_column_name

\* C12: the documents of a build are, for each column, one per descriptive
\* field (name, description, value description, in that order) whose text has
\* a non-whitespace character: at most 3 per column, none with an empty or
\* whitespace-only text, each with the table name and the raw column
\* identifier of a catalog column in its metadata.
C12_OneDocPerNonEmptyField ==
  builds > 0 =>
    /\ \A i \in 1..Len(docs) :
         /\ NonBlank(docs[i].page_content)
         /\ \E c \in 1..Len(catalog) :
              /\ docs[i].metadata.table_name = catalog[c].table_name
              /\ docs[i].metadata.original_column_name = catalog[c].original_column_name
    /\ \A c \in 1..Len(catalog) :
         LET info == catalog[c].info
         IN  /\ TextsFor(catalog[c].original_column_name) =
                  SelectSeq(<<info.column_name, info.column_description,
                              info.value_description>>, NonBlank)
             /\ Len(TextsFor(catalog[c].original_column_name)) <= 3

\* C12 witness: a column with a name and a value description and a
\* whitespace-only description has given exactly 2 documents.
C12_Witness ==
  /\ builds > 0 /\ flag /\ Len(catalog) = 1 /\ Len(docs) = 2
  /\ NonBlank(catalog[1].info.column_name)
  /\ catalog[1].info.column_description = <<" ">>
  /\ NonBlank(catalog[1].info.value_description)

\* C13: with use_value_description=False the texts of the documents of a
\* column are those of its name and description fields only, whatever the
\* entry's value_description field holds.
C13_FlagSuppressesValueText ==
  (builds > 0 /\ ~flag) =>
    \A c \in 1..Len(catalog) :
      TextsFor(catalog[c].original_column_name) =
        SelectSeq(<<catalog[c].info.column_name, catalog[c].info.column_description>>,
                  NonBlank)

\* C14 (as stated): with use_value_description=False the value_description
\* in the metadata of every document is the catalog's.
C14_MetadataKeepsValueDescription ==
  (builds > 0 /\ ~flag) =>
    \A i \in 1..Len(docs) :
      docs[i].metadata.value_description = catalog[ColumnOf(docs[i])].info.value_description

\* C14: the metadata of every document carries the column's display name and
\* description as the catalog has them, and as value_description the
\* catalog's when the flag is set and the empty text when it is not.
C14_MetadataBlankWhenSuppressed ==
  builds > 0 =>
    \A i \in 1..Len(docs) :
      LET info == catalog[ColumnOf(docs[i])].info
          md == docs[i].metadata
      IN  /\ md.column_name = info.column_name
          /\ md.column_description = info.column_description
          /\ md.value_description = IF flag THEN info.value_description ELSE <<>>

\* C14 witness: a build without the flag has made a document for a column
\* whose catalog value description is not empty.
C14_Witness ==
  /\ builds > 0 /\ ~flag /\ docs # <<>>
  /\ NonBlank(catalog[ColumnOf(docs[1])].info.value_description)

\* the positions inside _init
InitPcs == {"i_mode", "i_id", "i_path", "i_dir", "i_lsh", "i_mh", "i_vec"}

\* C15: whenever no thread is inside _init and the vector slot holds a loaded
\* handle, the handle was opened from the context_vector_db directory of the
\* session's current (db_mode, db_id).
C15_VectorHandleOfCurrentIdentity ==
  (IsLoaded(vector_db) /\ \A t \in Threads : pc[t] \notin InitPcs) =>
    <<vector_db.mode, vector_db.id>> = DirPath(db_mode, db_id)

\* C16: a query_lsh call that set_lsh told "success" has delegated with an lsh
\* structure and minhash signatures that were both loaded values, loaded by
\* the same load for the same database.
C16_DelegatesLoadedPair ==
  \A t \in Threads :
    (Done(t, "query_lsh") /\ st[t] = "success") =>
      /\ IsLoaded(h1[t]) /\ IsLoaded(h2[t])
      /\ h1[t] = h2[t]

\* C17: when DatabaseManager() hands back the session, db_mode, db_id, the
\* two paths and the three slots are all set, and the paths are those of
\* (db_mode, db_id).
C17_AccessorFullyInitialised ==
  [][\A t \in Threads :
       (pc[t] = "nn" /\ pc'[t] = "idle" /\ out'[t] = InstOut) =>
         /\ db_mode # "unset" /\ db_id # "unset"
         /\ db_path = SqlitePath(db_mode, db_id)
         /\ db_directory_path = DirPath(db_mode, db_id)
         /\ lsh # Unset /\ minhashes # Unset /\ vector_db # Unset]_vars

\* C18: whenever no thread is in the load body of set_lsh or in _init, lsh
\* and minhashes are in the same state: both unassigned, both None, both the
\* values of one load, or both "error" (so also after the lsh file has loaded
\* and the minhashes file has not); and a query_lsh call that found the error
\* state has raised the load error.
C18_LshPairInStep ==
  /\ (\A t \in Threads : pc[t] \notin InitPcs \cup LshLoadPcs) =>
       /\ lsh.k = minhashes.k
       /\ IsLoaded(lsh) => lsh = minhashes
  /\ \A t \in Threads :
       (Done(t, "query_lsh") /\ st[t] = "error") =>
         out[t] \in {LoadErrOut("LSH", i) : i \in Ids}

\* C18 witness: after one failed load both hold "error", no thread is in a
\* call, and the query that loaded and a later one have both raised.
C18_Witness ==
  /\ lsh = ErrorV /\ minhashes = ErrorV
  /\ lshLoads = 1 /\ lshFails = 1 /\ lock = 0
  /\ \A t \in Threads : Done(t, "query_lsh") /\ out[t] = LoadErrOut("LSH", db_id)

\* C19: a DatabaseManager call with db_mode or db_id None raises ValueError
\* when no object has been created and returns the instance when one has;
\* either way it creates nothing and leaves the identity, the paths and the
\* slots as they are.
C19_MissingArgsLeaveSessionAlone ==
  [][\A t \in Threads :
       (pc[t] = "nn" /\ pc'[t] = "idle") =>
         /\ UNCHANGED <<sess, slots>>
         /\ objCount = 0 => out'[t] = ValueErrorOut
         /\ objCount > 0 => out'[t] = InstOut]_vars

\* C19 witness: a call with only db_mode given has raised ValueError before
\* any session was made, and a call with an argument missing has returned
\* the session made since.
C19_Witness ==
  \E t, u \in Threads :
    /\ Done(t, "new0") /\ out[t] = ValueErrorOut /\ arg[t] = <<"dev", "-">>
    /\ Done(u, "new0") /\ out[u] = InstOut
    /\ created /\ objCount = 1 /\ epoch = 1

\* the positions at which a thread holds the class lock
LockPcs == InitPcs \cup LshLoadPcs \cup {"n_ret", "l_rel"}

\* C20: the lock is held only by a thread inside the with block of __new__ or
\* of set_lsh (so it is free once the block is left, on the failed-load path
\* too), and every call a thread has begun ends, by returning or raising.
C20_EveryCallEnds ==
  /\ [](\A t \in Threads : lock = t <=> pc[t] \in LockPcs)
  /\ \A t \in Threads : (pc[t] # "idle") ~> (pc[t] = "idle")

\* C20 witness: calls that overlapped have all ended and the lock is free,
\* after a DatabaseManager(mode, id) call and a query_lsh call whose load
\* failed.
C20_Witness ==
  /\ \A t \in Threads : pc[t] = "idle"
  /\ lock = 0 /\ overlap /\ lshFails = 1
  /\ \E t, u \in Threads :
       /\ Done(t, "new") /\ out[t] = InstOut
       /\ Done(u, "query_lsh") /\ out[u] = LoadErrOut("LSH", db_id)

====
